---------------------------- MODULE Spec2Model ----------------------------
(***************************************************************************)
(* A model of the data core of the events application:                     *)
(*   - src/src/data/event.js: decodeEvent and expandRecurringEvents        *)
(*   - the event filter selection exercised by the test suite kept in      *)
(*     src/src/components/ImageHeader.js (lines 67-386)                    *)
(*   - src/src/screens/FilterModal/component.js: the screen that edits     *)
(*     the staged filters and applies or discards them                     *)
(* The libraries event.js imports (lib/date, lib/decode, lib/maybe,        *)
(* data/field-ref) and filters/event-filters are not part of the source    *)
(* tree; they are modelled from their description in spec.md.              *)
(*                                                                         *)
(* Representation of strings that the code takes apart or builds:          *)
(*   - a timestamp in the storage format "yyyy-MM-ddTHH:mm" is the record  *)
(*     of its components [year, month, day, hour, minute];                 *)
(*   - a recurrence / display date "d/M/yy" is the tuple <<d, M, yy>> of   *)
(*     its "/"-separated components;                                       *)
(*   - an id is the sequence of the pieces a template string joins.        *)
(***************************************************************************)
EXTENDS Integers, Sequences, FiniteSets, TLC

VARIABLES
    phase,        \* which operation ran last
    event,        \* the Event handed to expandRecurringEvents
    events,       \* the Array<Event> it returned
    raw,          \* the content entry handed to the decoder
    locale,       \* the locale decodeEvent was built for
    decoded,      \* the decoder's result
    eventFilters, \* state.eventFilters: the selected and the staged filters
    filterRun,    \* the last use of buildEventFilter: arguments and outcome
    modal,        \* the FilterModal screen: mounted or not, its subscription
    trace         \* what the FilterModal's handlers did since it was mounted

expandVars == <<event, events>>
decodeVars == <<raw, locale, decoded>>
filterVars == <<eventFilters, filterRun>>
modalVars == <<modal, trace>>
vars == <<phase, expandVars, decodeVars, filterVars, modalVars>>

\* The parts of the state an operation has nothing to do with.
DecodeIdle == raw = "none" /\ locale = "none" /\ decoded = "none"
FilterIdle == eventFilters = "none" /\ filterRun = "none"
ModalIdle == modal = "none" /\ trace = "none"

---------------------------------------------------------------------------
(* Bounds of the model                                                     *)

MaxRecurrences == 3

---------------------------------------------------------------------------
(* lib/date: timestamps, instants and the two formats                      *)

FORMAT_CONTENTFUL_ISO == "yyyy-MM-dd'T'HH:mm"
FORMAT_EUROPEAN_DATE == "d/M/yy"

\* Days between 1970-01-01 and the civil date y-m-d (proleptic Gregorian).
\* A day past the end of the month rolls over into the next month.
DaysFromCivil(y, m, d) ==
    LET yy  == IF m <= 2 THEN y - 1 ELSE y
        era == yy \div 400
        yoe == yy - era * 400
        mp  == IF m > 2 THEN m - 3 ELSE m + 9
        doy == (153 * mp + 2) \div 5 + d - 1
        doe == yoe * 365 + yoe \div 4 - yoe \div 100 + doy
    IN  era * 146097 + doe - 719468

\* The civil date of a day number, as [year, month, day].
CivilFromDays(z0) ==
    LET z   == z0 + 719468
        era == z \div 146097
        doe == z - era * 146097
        yoe == (doe - doe \div 1460 + doe \div 36524 - doe \div 146096) \div 365
        doy == doe - (365 * yoe + yoe \div 4 - yoe \div 100)
        mp  == (5 * doy + 2) \div 153
        d   == doy - (153 * mp + 2) \div 5 + 1
        m   == IF mp < 10 THEN mp + 3 ELSE mp - 9
        y   == yoe + era * 400
    IN  [year |-> IF m <= 2 THEN y + 1 ELSE y, month |-> m, day |-> d]

\* Parsing a storage timestamp: the instant, in minutes since 1970-01-01T00:00.
parseDate(ts) ==
    (DaysFromCivil(ts.year, ts.month, ts.day) * 24 + ts.hour) * 60 + ts.minute

\* toFormat(value, format): the timestamp rendered in one of the two formats.
formatDate(ts, format) ==
    LET t    == parseDate(ts)
        days == t \div 1440
        rest == t - days * 1440
        c    == CivilFromDays(days)
    IN  IF format = FORMAT_CONTENTFUL_ISO
        THEN [year |-> c.year, month |-> c.month, day |-> c.day,
              hour |-> rest \div 60, minute |-> rest % 60]
        ELSE <<c.day, c.month, c.year % 100>>

\* set(date, {year, month, day}): the date's components replaced; a two-digit
\* year is a year of the 2000s.
setDate(ts, values) ==
    [ts EXCEPT !.year  = IF values.year < 100 THEN 2000 + values.year
                         ELSE values.year,
               !.month = values.month,
               !.day   = values.day]

\* diff(a, b): the duration from b to a, in minutes.
diffDate(a, b) == parseDate(a) - parseDate(b)

\* add(date, duration): the timestamp that many minutes later.
addToDate(ts, duration) ==
    LET t    == parseDate(ts) + duration
        days == t \div 1440
        rest == t - days * 1440
        c    == CivilFromDays(days)
    IN  [year |-> c.year, month |-> c.month, day |-> c.day,
         hour |-> rest \div 60, minute |-> rest % 60]

---------------------------------------------------------------------------
(* Ramda helpers used by event.js                                          *)

RECURSIVE uniq(_)
\* R.uniq: the first occurrence of every element, in order.
uniq(list) ==
    IF list = <<>> THEN <<>>
    ELSE LET init == uniq(SubSeq(list, 1, Len(list) - 1))
             last == list[Len(list)]
         IN  IF \E i \in 1..Len(init) : init[i] = last
             THEN init
             ELSE Append(init, last)

\* The keys of an Event whose values are plain objects on both sides of the
\* merge in generateRecurringEvent (arrays and scalars are replaced).
ObjectKeys == {"fields"}

MergeRight(l, r) ==
    [k \in DOMAIN l \cup DOMAIN r |-> IF k \in DOMAIN r THEN r[k] ELSE l[k]]

\* Variant: a shallow merge, the nested object of r replaces that of l.
mergeDeepRight_shallow(l, r) == MergeRight(l, r)

\* R.mergeDeepRight(l, r): a new object; own keys of r win, nested objects
\* are merged key by key.
mergeDeepRight(l, r) ==
    [k \in DOMAIN l \cup DOMAIN r |->
        IF k \in DOMAIN l /\ k \in DOMAIN r /\ k \in ObjectKeys
        THEN MergeRight(l[k], r[k])
        ELSE IF k \in DOMAIN r THEN r[k] ELSE l[k]]

---------------------------------------------------------------------------
(* event.js: recurrence expansion                                          *)

formatEuropeanDate(value) == formatDate(value, FORMAT_EUROPEAN_DATE)

\* Variant: the end time gets the occurrence's calendar date instead of the
\* offset between the two start times.
generateRecurringEvent_endSameDay(ev, recurrenceStartTime) ==
    LET endTime   == ev.fields.endTime
        startTime == ev.fields.startTime
        recurrenceEndTime == setDate(endTime, recurrenceStartTime)
    IN  mergeDeepRight(ev,
          [fields |->
             [startTime |-> formatDate(recurrenceStartTime, FORMAT_CONTENTFUL_ISO),
              endTime   |-> formatDate(recurrenceEndTime, FORMAT_CONTENTFUL_ISO),
              recurrenceDates |->
                 <<formatEuropeanDate(startTime)>> \o ev.fields.recurrenceDates],
           id |-> ev.id \o <<"-recurrence-", formatEuropeanDate(recurrenceStartTime)>>])

\* Variant: the id carries the display date of the original's start time.
generateRecurringEvent_originalDateInId(ev, recurrenceStartTime) ==
    LET endTime   == ev.fields.endTime
        startTime == ev.fields.startTime
        difference == diffDate(recurrenceStartTime, startTime)
        recurrenceEndTime == addToDate(endTime, difference)
    IN  mergeDeepRight(ev,
          [fields |->
             [startTime |-> formatDate(recurrenceStartTime, FORMAT_CONTENTFUL_ISO),
              endTime   |-> formatDate(recurrenceEndTime, FORMAT_CONTENTFUL_ISO),
              recurrenceDates |->
                 <<formatEuropeanDate(startTime)>> \o ev.fields.recurrenceDates],
           id |-> ev.id \o <<"-recurrence-", formatEuropeanDate(startTime)>>])

\* Variant: the list gets the display date of the occurrence itself, at its end.
generateRecurringEvent_ownDateAppended(ev, recurrenceStartTime) ==
    LET endTime   == ev.fields.endTime
        startTime == ev.fields.startTime
        difference == diffDate(recurrenceStartTime, startTime)
        recurrenceEndTime == addToDate(endTime, difference)
    IN  mergeDeepRight(ev,
          [fields |->
             [startTime |-> formatDate(recurrenceStartTime, FORMAT_CONTENTFUL_ISO),
              endTime   |-> formatDate(recurrenceEndTime, FORMAT_CONTENTFUL_ISO),
              recurrenceDates |->
                 Append(ev.fields.recurrenceDates,
                        formatEuropeanDate(recurrenceStartTime))],
           id |-> ev.id \o <<"-recurrence-", formatEuropeanDate(recurrenceStartTime)>>])

generateRecurringEvent(ev, recurrenceStartTime) ==
    LET endTime   == ev.fields.endTime
        startTime == ev.fields.startTime
        difference == diffDate(recurrenceStartTime, startTime)
        recurrenceEndTime == addToDate(endTime, difference)
    IN  mergeDeepRight(ev,
          [fields |->
             [startTime |-> formatDate(recurrenceStartTime, FORMAT_CONTENTFUL_ISO),
              endTime   |-> formatDate(recurrenceEndTime, FORMAT_CONTENTFUL_ISO),
              recurrenceDates |->
                 <<formatEuropeanDate(startTime)>> \o ev.fields.recurrenceDates],
           id |-> ev.id \o <<"-recurrence-", formatEuropeanDate(recurrenceStartTime)>>])

\* Variant: the entry read as month/day/year.
recurrenceDateToStartTime_monthFirst(originalStartTime, recurrence) ==
    LET recurrenceMonth == recurrence[1]
        recurrenceDay   == recurrence[2]
        recurrenceYear  == recurrence[3]
    IN  formatDate(
          setDate(originalStartTime,
                  [year |-> recurrenceYear, month |-> recurrenceMonth,
                   day |-> recurrenceDay]),
          FORMAT_CONTENTFUL_ISO)

recurrenceDateToStartTime(originalStartTime, recurrence) ==
    LET recurrenceDay   == recurrence[1]
        recurrenceMonth == recurrence[2]
        recurrenceYear  == recurrence[3]
    IN  formatDate(
          setDate(originalStartTime,
                  [year |-> recurrenceYear, month |-> recurrenceMonth,
                   day |-> recurrenceDay]),
          FORMAT_CONTENTFUL_ISO)

RecurrenceStartTimes(ev) ==
    <<ev.fields.startTime>> \o
    [i \in 1..Len(ev.fields.recurrenceDates) |->
        recurrenceDateToStartTime(ev.fields.startTime,
                                  ev.fields.recurrenceDates[i])]

\* Variant: the start times are not de-duplicated.
expandRecurringEvents_noUniq(ev) ==
    LET rest == Tail(RecurrenceStartTimes(ev))
    IN  <<ev>> \o [i \in 1..Len(rest) |-> generateRecurringEvent(ev, rest[i])]

\* Variant: the original's own start time is not dropped from the list.
expandRecurringEvents_noSlice(ev) ==
    LET unique == uniq(RecurrenceStartTimes(ev))
    IN  <<ev>> \o [i \in 1..Len(unique) |-> generateRecurringEvent(ev, unique[i])]

\* Variant: the occurrences are produced last date first.
expandRecurringEvents_reversed(ev) ==
    LET unique == uniq(RecurrenceStartTimes(ev))
        rest   == SubSeq(unique, 2, Len(unique))
    IN  <<ev>> \o [i \in 1..Len(rest) |->
                      generateRecurringEvent(ev, rest[Len(rest) + 1 - i])]

expandRecurringEvents(ev) ==
    LET recurrenceStartTimes ==
            <<ev.fields.startTime>> \o
            [i \in 1..Len(ev.fields.recurrenceDates) |->
                recurrenceDateToStartTime(ev.fields.startTime,
                                          ev.fields.recurrenceDates[i])]
        unique == uniq(recurrenceStartTimes)
        rest   == SubSeq(unique, 2, Len(unique))
    IN  <<ev>> \o [i \in 1..Len(rest) |-> generateRecurringEvent(ev, rest[i])]

---------------------------------------------------------------------------
(* Inputs of the recurrence expansion                                      *)

Timestamp(y, m, d, h, mi) ==
    [year |-> y, month |-> m, day |-> d, hour |-> h, minute |-> mi]

\* Start times: a mid-month morning, a late evening on New Year's Eve and
\* the last day of February.
StartTimes ==
    { Timestamp(2018, 1, 9, 11, 0),
      Timestamp(2018, 12, 31, 23, 30),
      Timestamp(2018, 2, 28, 0, 0) }

\* End times: the same day, past midnight, and a year later.
EndTimes ==
    { Timestamp(2018, 1, 9, 18, 0),
      Timestamp(2019, 1, 1, 1, 15),
      Timestamp(2019, 7, 15, 18, 0) }

\* Recurrence dates, as <<day, month, two-digit year>>.
RecurrencePool ==
    { <<13, 1, 18>>, <<9, 1, 18>>, <<1, 1, 19>>, <<31, 12, 18>>, <<1, 3, 20>> }

RecurrenceLists ==
    UNION { [1..n -> RecurrencePool] : n \in 0..MaxRecurrences }

FieldRef(id) == [id |-> id]
\* lib/maybe: an optional value is absent or present with its value.
Nothing == <<"Nothing">>
Just(v) == <<"Just", v>>

\* A decoded Event (event.js, type Event) with the given times.
MakeEvent(id, startTime, endTime, recurrenceDates) ==
    [contentType |-> "event",
     id          |-> <<id>>,
     locale      |-> "en-GB",
     revision    |-> 1,
     fields      |->
       [name                   |-> "Pride in the Park",
        eventCategories        |-> <<"Community", "Music">>,
        audience               |-> <<>>,
        startTime              |-> startTime,
        endTime                |-> endTime,
        location               |-> [lat |-> 51, lon |-> 0],
        addressLine1           |-> Nothing,
        addressLine2           |-> Nothing,
        city                   |-> Just("London"),
        postcode               |-> Nothing,
        locationName           |-> "Vauxhall Pleasure Gardens",
        eventPriceLow          |-> 19,
        eventPriceHigh         |-> 30,
        accessibilityOptions   |-> <<"Accessible Toilets">>,
        eventDescription       |-> "description",
        accessibilityDetails   |-> Nothing,
        email                  |-> Just("john.smith@eventname.com"),
        phone                  |-> Nothing,
        ticketingUrl           |-> Nothing,
        venueDetails           |-> <<"Gender neutral toilets">>,
        individualEventPicture |-> FieldRef("HNLFqItbkAmW8ssqQECIy"),
        eventsListPicture      |-> FieldRef("HNLFqItbkAmW8ssqQECIy"),
        performances           |-> <<>>,
        recurrenceDates        |-> recurrenceDates]]

NoEvent == MakeEvent("none", Timestamp(2018, 1, 1, 0, 0), Timestamp(2018, 1, 1, 0, 0), <<>>)

ExpandIdle == event = NoEvent /\ events = <<>>

---------------------------------------------------------------------------
(* Specification of the recurrence expansion                               *)

ExpandInit ==
    /\ phase = "event"
    /\ \E id \in {"e1"}, s \in StartTimes, e \in EndTimes, r \in RecurrenceLists :
          event = MakeEvent(id, s, e, r)
    /\ events = <<>>
    /\ DecodeIdle /\ FilterIdle /\ ModalIdle

\* events = expandRecurringEvents(event)
Expand ==
    /\ phase = "event"
    /\ events' = expandRecurringEvents(event)
    /\ phase' = "expanded"
    /\ UNCHANGED <<event, decodeVars, filterVars, modalVars>>

ExpandNext == Expand

ExpandSpec == ExpandInit /\ [][ExpandNext]_vars

---------------------------------------------------------------------------
(* Properties of the recurrence expansion                                  *)

Expanded == phase = "expanded"

\* The recurrence dates of the input.
Dates == event.fields.recurrenceDates

\* The start time a recurrence entry stands for.
ResolvedStart(i) == recurrenceDateToStartTime(event.fields.startTime, Dates[i])

\* The calendar date of a timestamp, written as a recurrence entry.
DateOf(ts) == <<ts.day, ts.month, ts.year % 100>>

\* C1: the result has at most one event more than there are distinct
\* recurrence start times that differ from the original's start time, so an
\* entry resolving to the original's start, or to an earlier entry's, adds
\* nothing.
C1_Deduplicated ==
    Expanded =>
        Len(events) <= 1 + Cardinality(
            { ResolvedStart(i) : i \in 1..Len(Dates) } \ {event.fields.startTime})

\* C1 case: a list holding the original's own date and a repeated date.
C1_Witness ==
    /\ Expanded
    /\ \E i \in 1..Len(Dates) : ResolvedStart(i) = event.fields.startTime
    /\ \E i, j \in 1..Len(Dates) :
          i < j /\ Dates[i] = Dates[j] /\ ResolvedStart(i) # event.fields.startTime
    /\ Len(events) = 2

\* C2: with an empty recurrenceDates list the result is exactly [e].
C2_EmptyRecurrence ==
    (Expanded /\ Dates = <<>>) => events = <<event>>

\* C2 case: an event without recurrence dates has been expanded.
C2_Witness == Expanded /\ Dates = <<>> /\ Len(events) = 1

\* C3: every derived occurrence lasts as long as the original.
C3_DurationPreserved ==
    Expanded =>
        \A i \in 2..Len(events) :
            parseDate(events[i].fields.endTime) - parseDate(events[i].fields.startTime)
              = parseDate(event.fields.endTime) - parseDate(event.fields.startTime)

\* C3 case: an occurrence of an event that ends on a later day than it starts.
C3_Witness ==
    /\ Expanded
    /\ Len(events) >= 2
    /\ DateOf(event.fields.endTime) # DateOf(event.fields.startTime)
    /\ events[2].fields.endTime # event.fields.endTime

\* The entries of the list are pairwise different and none is the original's date.
DistinctNewDates ==
    /\ \A i, j \in 1..Len(Dates) : i # j => Dates[i] # Dates[j]
    /\ \A i \in 1..Len(Dates) : Dates[i] # DateOf(event.fields.startTime)

\* C4: an occurrence starts on its entry's day, month and year at the
\* original's time of day; k distinct dates, none the original's, give k + 1
\* events.
C4_StartOnRecurrenceDate ==
    Expanded =>
        /\ \A i \in 2..Len(events) :
              /\ events[i].fields.startTime.hour = event.fields.startTime.hour
              /\ events[i].fields.startTime.minute = event.fields.startTime.minute
              /\ \E k \in 1..Len(Dates) :
                    /\ events[i].fields.startTime.day = Dates[k][1]
                    /\ events[i].fields.startTime.month = Dates[k][2]
                    /\ events[i].fields.startTime.year = 2000 + Dates[k][3]
        /\ DistinctNewDates =>
              /\ Len(events) = Len(Dates) + 1
              /\ \A k \in 1..Len(Dates) :
                    DateOf(events[k + 1].fields.startTime) = Dates[k]

\* C4 case: several distinct dates, one of them in another year.
C4_Witness ==
    /\ Expanded
    /\ DistinctNewDates
    /\ Len(Dates) >= 2
    /\ \E k \in 1..Len(Dates) : Dates[k][3] # event.fields.startTime.year % 100
    /\ Len(events) = Len(Dates) + 1

\* C5 as stated: the original first, then the occurrences in chronological
\* order, whatever the order of the list.
C5_ChronologicalOrder ==
    Expanded =>
        /\ Len(events) >= 1
        /\ events[1] = event
        /\ \A i, j \in 2..Len(events) :
              i < j => parseDate(events[i].fields.startTime)
                         < parseDate(events[j].fields.startTime)

\* The first position of the list that resolves to the given start time.
FirstIndex(st) ==
    CHOOSE i \in 1..Len(Dates) :
        /\ ResolvedStart(i) = st
        /\ \A j \in 1..(i - 1) : ResolvedStart(j) # st

\* C5 amended: the original first, then the occurrences in the order in
\* which their dates first appear in recurrenceDates.
C5_ListOrder ==
    Expanded =>
        /\ Len(events) >= 1
        /\ events[1] = event
        /\ \A i \in 2..Len(events) :
              \E k \in 1..Len(Dates) : ResolvedStart(k) = events[i].fields.startTime
        /\ \A i, j \in 2..Len(events) :
              i < j => FirstIndex(events[i].fields.startTime)
                         < FirstIndex(events[j].fields.startTime)

\* C5 case: a list whose later entry is the earlier date.
C5_Witness ==
    /\ Expanded
    /\ Len(events) >= 3
    /\ parseDate(events[2].fields.startTime) > parseDate(events[3].fields.startTime)

\* C6: an occurrence's id is the original id, "-recurrence-" and the display
\* date of the occurrence's own start; the first element keeps the id.
C6_SyntheticId ==
    Expanded =>
        /\ events[1].id = event.id
        /\ \A i \in 2..Len(events) :
              events[i].id =
                 event.id \o <<"-recurrence-", DateOf(events[i].fields.startTime)>>

\* C6 case: two occurrences of one event, with different ids.
C6_Witness ==
    /\ Expanded
    /\ Len(events) >= 3
    /\ events[2].id # events[3].id
    /\ events[2].id # event.id

\* The keys of an Event and of its fields that an occurrence overrides.
OverriddenKeys == {"id"}
OverriddenFields == {"startTime", "endTime", "recurrenceDates"}

\* C15: the first element is the input event, every field as it was given,
\* and an occurrence is a record with the keys of the original that differs
\* from it at most in id, startTime, endTime and recurrenceDates.
C15_OnlyOverridesDiffer ==
    Expanded =>
        /\ events[1] = event
        /\ events[1].fields.recurrenceDates = Dates
        /\ \A i \in 2..Len(events) :
              /\ DOMAIN events[i] = DOMAIN event
              /\ DOMAIN events[i].fields = DOMAIN event.fields
              /\ \A k \in DOMAIN event \ (OverriddenKeys \cup ObjectKeys) :
                    events[i][k] = event[k]
              /\ \A k \in DOMAIN event.fields \ OverriddenFields :
                    events[i].fields[k] = event.fields[k]

\* C15 case: an occurrence whose id, start, end and list all differ from the
\* original's, next to the untouched original.
C15_Witness ==
    /\ Expanded
    /\ Len(events) >= 2
    /\ events[1] = event
    /\ events[2].id # event.id
    /\ events[2].fields.startTime # event.fields.startTime
    /\ events[2].fields.endTime # event.fields.endTime
    /\ events[2].fields.recurrenceDates # Dates
    /\ events[2].fields.name = event.fields.name

\* C16: an occurrence's recurrenceDates is the display date of the original's
\* start followed by the original's list, in order.
C16_OriginalDatePrepended ==
    Expanded =>
        \A i \in 2..Len(events) :
            /\ Len(events[i].fields.recurrenceDates) = Len(Dates) + 1
            /\ events[i].fields.recurrenceDates[1] = DateOf(event.fields.startTime)
            /\ \A k \in 1..Len(Dates) :
                  events[i].fields.recurrenceDates[k + 1] = Dates[k]

\* C16 case: a list of several dates, the first of them not the original's.
C16_Witness ==
    /\ Expanded
    /\ Len(events) >= 2
    /\ Len(Dates) >= 2
    /\ Dates[1] # DateOf(event.fields.startTime)
    /\ Len(events[2].fields.recurrenceDates) = Len(Dates) + 1

---------------------------------------------------------------------------
(* Untyped content values (the decoder's input)                            *)

Str(s)  == [t |-> "string", v |-> s]
Num(n)  == [t |-> "number", v |-> n]
Arr(a)  == [t |-> "array",  v |-> a]
Obj(f)  == [t |-> "object", v |-> f]
Null    == [t |-> "null",   v |-> "null"]

HasKey(j, key) == j.t = "object" /\ key \in DOMAIN j.v

---------------------------------------------------------------------------
(* lib/decode: decoder combinators.  A decoder is a value built by the     *)
(* combinators below; run on a content value it gives a success carrying   *)
(* the decoded value or a failure carrying a message and the path of the   *)
(* offending value.                                                        *)

Ok(v) == [ok |-> TRUE, value |-> v, error |-> "", path |-> <<>>]
Err(msg, path) == [ok |-> FALSE, value |-> <<>>, error |-> msg, path |-> path]

\* A failure met below `segment` reports the segment in its path.
Under(segment, r) == IF r.ok THEN r ELSE Err(r.error, <<segment>> \o r.path)

string == [op |-> "string"]
number == [op |-> "number"]
value(literal) == [op |-> "value", literal |-> literal]
succeed(x) == [op |-> "succeed", x |-> x]
field(name, decoder) == [op |-> "field", name |-> name, decoder |-> decoder]
array(decoder) == [op |-> "array", decoder |-> decoder]
maybe(decoder) == [op |-> "maybe", decoder |-> decoder]
map(f, decoder) == [op |-> "map", f |-> f, decoder |-> decoder]
oneOf(decoders) == [op |-> "oneOf", decoders |-> decoders]
\* shape(spec): the keys of spec in declaration order, and their decoders.
shape(order, decoders) == [op |-> "shape", order |-> order, decoders |-> decoders]

RECURSIVE at(_, _)
\* at(path, decoder): field after field along the path.
at(path, decoder) ==
    IF path = <<>> THEN decoder
    ELSE field(Head(path), at(Tail(path), decoder))

\* lib/maybe withDefault(defaultValue): the function handed to map.
withDefault(defaultValue) == [fn |-> "withDefault", defaultValue |-> defaultValue]

\* f(m) for such a function.
Apply(f, m) == IF m = Nothing THEN f.defaultValue ELSE m[2]

\* The first index of a sequence of results that is a failure (0: none).
FirstFailure(rs) ==
    IF \A i \in 1..Len(rs) : rs[i].ok THEN 0
    ELSE CHOOSE i \in 1..Len(rs) : ~rs[i].ok /\ \A k \in 1..(i - 1) : rs[k].ok

\* The first index of a sequence of results that is a success (0: none).
FirstSuccess(rs) ==
    IF \A i \in 1..Len(rs) : ~rs[i].ok THEN 0
    ELSE CHOOSE i \in 1..Len(rs) : rs[i].ok /\ \A k \in 1..(i - 1) : ~rs[k].ok

RECURSIVE runDecoder(_, _)
\* decoder(j): what each combinator's decoder does with a content value.
runDecoder(d, j) ==
    CASE d.op = "string" ->
           IF j.t = "string" THEN Ok(j.v) ELSE Err("NotAString", <<>>)
      [] d.op = "number" ->
           IF j.t = "number" THEN Ok(j.v) ELSE Err("NotANumber", <<>>)
      [] d.op = "value" ->
           \* succeeds only if the input strictly equals the literal
           IF j.t = "string" /\ j.v = d.literal THEN Ok(d.literal)
           ELSE Err("UnexpectedValue", <<>>)
      [] d.op = "succeed" -> Ok(d.x)
      [] d.op = "field" ->
           \* MissingField if the name is absent, else recurse
           IF HasKey(j, d.name)
           THEN Under(d.name, runDecoder(d.decoder, j.v[d.name]))
           ELSE Err("MissingField", <<d.name>>)
      [] d.op = "array" ->
           \* fails with the first element's error, annotated with its index
           IF j.t # "array" THEN Err("NotAnArray", <<>>)
           ELSE LET rs  == [i \in 1..Len(j.v) |-> runDecoder(d.decoder, j.v[i])]
                    bad == FirstFailure(rs)
                IN  IF bad = 0 THEN Ok([i \in 1..Len(rs) |-> rs[i].value])
                    ELSE Under(ToString(bad), rs[bad])
      [] d.op = "shape" ->
           \* fails on the first failing key, in declaration order
           LET byKey == [k \in DOMAIN d.decoders |-> runDecoder(d.decoders[k], j)]
               rs    == [i \in 1..Len(d.order) |-> byKey[d.order[i]]]
               bad   == FirstFailure(rs)
           IN  IF bad = 0
               THEN Ok([k \in DOMAIN d.decoders |-> byKey[k].value])
               ELSE rs[bad]
      [] d.op = "oneOf" ->
           \* the first decoder that succeeds, or "none matched"
           LET rs   == [i \in 1..Len(d.decoders) |-> runDecoder(d.decoders[i], j)]
               good == FirstSuccess(rs)
           IN  IF good = 0 THEN Err("NoneMatched", <<>>) ELSE rs[good]
      [] d.op = "maybe" ->
           \* never fails; present when the wrapped decoder succeeds
           LET r == runDecoder(d.decoder, j)
           IN  IF r.ok THEN Ok(Just(r.value)) ELSE Ok(Nothing)
      [] d.op = "map" ->
           LET r == runDecoder(d.decoder, j)
           IN  IF r.ok THEN Ok(Apply(d.f, r.value)) ELSE r

\* data/field-ref: a reference keeps the id of the entry it points at.
decodeFieldRef == shape(<<"id">>, [id |-> at(<<"sys", "id">>, string)])

---------------------------------------------------------------------------
(* event.js: decodeEvent                                                   *)

eventCategoryNames ==
    << "Cabaret and Variety", "Community", "Talks and Debates",
       "Film and Screenings", "Plays and Theatre", "Social and Networking",
       "Nightlife", "Exhibition and Tours", "Sports and Activities",
       "Health", "Music" >>

\* Variant: any string is taken for a category.
decodeEventCategoryName_anyString == string

decodeEventCategoryName ==
    oneOf([i \in 1..Len(eventCategoryNames) |-> value(eventCategoryNames[i])])

maybeField(loc, name, decoder) ==
    field(name, maybe(field(loc, decoder)))

maybeFieldWithDefault(loc, name, decoder, defaultValue) ==
    map(withDefault(defaultValue), maybeField(loc, name, decoder))

\* The keys of Event.fields, in declaration order.
FieldOrder ==
    << "name", "eventCategories", "audience", "startTime", "endTime",
       "location", "addressLine1", "addressLine2", "city", "postcode",
       "locationName", "eventPriceLow", "eventPriceHigh",
       "accessibilityOptions", "eventDescription", "accessibilityDetails",
       "email", "phone", "ticketingUrl", "venueDetails",
       "individualEventPicture", "eventsListPicture", "performances",
       "recurrenceDates" >>

decodeEventFields(loc) ==
    shape(FieldOrder,
      [name                   |-> at(<<"name", loc>>, string),
       eventCategories        |-> at(<<"eventCategories", loc>>,
                                     array(decodeEventCategoryName)),
       audience               |-> maybeFieldWithDefault(loc, "audience", array(string), <<>>),
       startTime              |-> at(<<"startTime", loc>>, string),
       endTime                |-> at(<<"endTime", loc>>, string),
       location               |-> at(<<"location", loc>>,
                                     shape(<<"lat", "lon">>,
                                           [lat |-> field("lat", number),
                                            lon |-> field("lon", number)])),
       addressLine1           |-> maybeField(loc, "addressLine1", string),
       addressLine2           |-> maybeField(loc, "addressLine2", string),
       city                   |-> maybeField(loc, "city", string),
       postcode               |-> maybeField(loc, "postcode", string),
       locationName           |-> at(<<"locationName", loc>>, string),
       eventPriceLow          |-> at(<<"eventPriceLow", loc>>, number),
       eventPriceHigh         |-> at(<<"eventPriceHigh", loc>>, number),
       accessibilityOptions   |-> maybeFieldWithDefault(loc, "accessibilityOptions", array(string), <<>>),
       eventDescription       |-> at(<<"eventDescription", loc>>, string),
       accessibilityDetails   |-> maybeField(loc, "accessibilityDetails", string),
       email                  |-> maybeField(loc, "email", string),
       phone                  |-> maybeField(loc, "phone", string),
       ticketingUrl           |-> maybeField(loc, "ticketingUrl", string),
       venueDetails           |-> maybeFieldWithDefault(loc, "venueDetails", array(string), <<>>),
       individualEventPicture |-> at(<<"individualEventPicture", loc>>, decodeFieldRef),
       eventsListPicture      |-> at(<<"eventsListPicture", loc>>, decodeFieldRef),
       performances           |-> maybeFieldWithDefault(loc, "performances", array(decodeFieldRef), <<>>),
       recurrenceDates        |-> maybeFieldWithDefault(loc, "recurrenceDates", array(string), <<>>)])

\* Variant: the content type of the entry is not looked at.
decodeEvent_anyContentType(loc) ==
    shape(<<"contentType", "id", "locale", "revision", "fields">>,
      [contentType |-> succeed("event"),
       id          |-> at(<<"sys", "id">>, string),
       locale      |-> succeed(loc),
       revision    |-> at(<<"sys", "revision">>, number),
       fields      |-> field("fields", decodeEventFields(loc))])

decodeEvent(loc) ==
    shape(<<"contentType", "id", "locale", "revision", "fields">>,
      [contentType |-> at(<<"sys", "contentType", "sys", "id">>, value("event")),
       id          |-> at(<<"sys", "id">>, string),
       locale      |-> succeed(loc),
       revision    |-> at(<<"sys", "revision">>, number),
       fields      |-> field("fields", decodeEventFields(loc))])

---------------------------------------------------------------------------
(* Inputs of the decoder: content entries                                  *)

MaxCategories == 3

ContentLocale == "en-GB"
Locales == {"en-GB", "cy"}

Localised(v) == Obj(ContentLocale :> v)

AssetLink(id) == Obj("sys" :> Obj("id" :> Str(id) @@ "type" :> Str("Asset")))

\* A complete entry of content type "event" with the given categories.
ContentEntry(categories) ==
    Obj("sys" :> Obj("id" :> Str(<<"e1">>)
                     @@ "revision" :> Num(1)
                     @@ "contentType" :> Obj("sys" :> Obj("id" :> Str("event"))))
        @@ "fields" :> Obj(
             [name                   |-> Localised(Str("Pride in the Park")),
              eventCategories        |-> Localised(Arr([i \in 1..Len(categories) |-> Str(categories[i])])),
              audience               |-> Localised(Arr(<<Str("Families")>>)),
              startTime              |-> Localised(Str(Timestamp(2018, 1, 9, 11, 0))),
              endTime                |-> Localised(Str(Timestamp(2018, 1, 9, 18, 0))),
              location               |-> Localised(Obj("lat" :> Num(51) @@ "lon" :> Num(0))),
              addressLine1           |-> Localised(Str("1 Kennington Lane")),
              addressLine2           |-> Localised(Str("Vauxhall")),
              city                   |-> Localised(Str("London")),
              postcode               |-> Localised(Str("SE11 5HY")),
              locationName           |-> Localised(Str("Vauxhall Pleasure Gardens")),
              eventPriceLow          |-> Localised(Num(19)),
              eventPriceHigh         |-> Localised(Num(30)),
              accessibilityOptions   |-> Localised(Arr(<<Str("Accessible Toilets")>>)),
              eventDescription       |-> Localised(Str("description")),
              accessibilityDetails   |-> Localised(Str("details")),
              email                  |-> Localised(Str("john.smith@eventname.com")),
              phone                  |-> Localised(Str("07891234567")),
              ticketingUrl           |-> Localised(Str("https://prideinlondon.org/")),
              venueDetails           |-> Localised(Arr(<<Str("Gender neutral toilets")>>)),
              individualEventPicture |-> Localised(AssetLink("HNLFqItbkAmW8ssqQECIy")),
              eventsListPicture      |-> Localised(AssetLink("HNLFqItbkAmW8ssqQECIy")),
              performances           |-> Localised(Arr(<<AssetLink("p1")>>)),
              recurrenceDates        |-> Localised(Arr(<<Str(<<13, 1, 18>>), Str(<<15, 1, 18>>)>>))]))

RequiredFields ==
    { "name", "eventCategories", "startTime", "endTime", "location",
      "locationName", "eventPriceLow", "eventPriceHigh", "eventDescription",
      "individualEventPicture", "eventsListPicture" }

ListFields ==
    { "audience", "accessibilityOptions", "venueDetails", "performances",
      "recurrenceDates" }

ScalarFields ==
    { "addressLine1", "addressLine2", "city", "postcode",
      "accessibilityDetails", "email", "phone", "ticketingUrl" }

OptionalFields == ListFields \cup ScalarFields

\* A value of another type than x.
Retype(x) == IF x.t = "string" THEN Num(7) ELSE Str("x")

RECURSIVE Edit(_, _, _, _)
\* The entry with the value at path[n..] removed, nulled, given another
\* type or given another string; unchanged when the path is not there.
Edit(j, path, n, kind) ==
    IF ~HasKey(j, path[n]) THEN j
    ELSE IF n < Len(path)
    THEN Obj([j.v EXCEPT ![path[n]] = Edit(j.v[path[n]], path, n + 1, kind)])
    ELSE IF kind = "remove"
    THEN Obj([k \in DOMAIN j.v \ {path[n]} |-> j.v[k]])
    ELSE Obj([j.v EXCEPT ![path[n]] =
                 IF kind = "null" THEN Null
                 ELSE IF kind = "retype" THEN Retype(j.v[path[n]])
                 ELSE Str("page")])

NoEdit == [path |-> <<"nothing">>, kind |-> "remove"]

ValueEdits(path) == { [path |-> path, kind |-> k] : k \in {"remove", "null", "retype"} }

\* Defects of what decodeEvent requires.
RequiredEdits ==
    UNION { ValueEdits(<<"fields", f, ContentLocale>>) : f \in RequiredFields }
    \cup { [path |-> <<"fields", f>>, kind |-> "remove"] : f \in RequiredFields }
    \cup ValueEdits(<<"sys", "id">>)
    \cup ValueEdits(<<"sys", "revision">>)
    \cup ValueEdits(<<"sys", "contentType", "sys", "id">>)
    \cup { [path |-> <<"sys", "contentType", "sys", "id">>, kind |-> "other"],
           [path |-> <<"sys">>, kind |-> "remove"],
           [path |-> <<"fields">>, kind |-> "remove"] }
    \cup ValueEdits(<<"fields", "location", ContentLocale, "lat">>)
    \cup ValueEdits(<<"fields", "location", ContentLocale, "lon">>)
    \cup ValueEdits(<<"fields", "individualEventPicture", ContentLocale, "sys", "id">>)
    \cup ValueEdits(<<"fields", "eventsListPicture", ContentLocale, "sys", "id">>)

\* Omissions and defects of the optional fields.
OptionalEdits ==
    UNION { ValueEdits(<<"fields", f, ContentLocale>>) : f \in OptionalFields }
    \cup { [path |-> <<"fields", f>>, kind |-> "remove"] : f \in OptionalFields }

Edited(j, e) == Edit(j, e.path, 1, e.kind)

CategoryPool == {"Community", "Music", "Karaoke"}

CategoryLists == UNION { [1..n -> CategoryPool] : n \in 0..MaxCategories }

\* The entries handed to the decoder: complete entries with every list of
\* categories, entries with one defect of a required value and at most one
\* of an optional field, and entries with two defects of optional fields.
IsContentEntry(j) ==
    \/ \E cs \in CategoryLists : j = ContentEntry(cs)
    \/ \E e1 \in RequiredEdits \cup {NoEdit}, e2 \in OptionalEdits \cup {NoEdit} :
          j = Edited(Edited(ContentEntry(<<"Community", "Music">>), e1), e2)
    \/ \E e1 \in OptionalEdits, e2 \in OptionalEdits :
          j = Edited(Edited(ContentEntry(<<"Community", "Music">>), e1), e2)

---------------------------------------------------------------------------
(* Specification of the decoder                                            *)

DecodeInit ==
    /\ phase = "raw"
    /\ IsContentEntry(raw)
    /\ locale = "none" /\ decoded = "none"
    /\ ExpandIdle /\ FilterIdle /\ ModalIdle

\* decoded = decodeEvent(l)(raw)
Decode(l) ==
    /\ phase = "raw"
    /\ locale' = l
    /\ decoded' = runDecoder(decodeEvent(l), raw)
    /\ phase' = "decoded"
    /\ UNCHANGED <<raw, expandVars, filterVars, modalVars>>

DecodeNext == \E l \in Locales : Decode(l)

DecodeSpec == DecodeInit /\ [][DecodeNext]_vars

Decoded == phase = "decoded"

---------------------------------------------------------------------------
(* Properties of the decoder                                               *)

\* What the entry holds at a path, told without the decoder.
RECURSIVE Lookup(_, _)
Lookup(path, j) ==
    IF path = <<>> THEN <<j>>
    ELSE IF HasKey(j, Head(path)) THEN Lookup(Tail(path), j.v[Head(path)])
    ELSE <<>>

Present(path) == Lookup(path, raw) # <<>>
TypeAt(path) == IF Present(path) THEN Lookup(path, raw)[1].t ELSE "missing"
ValueAt(path) == Lookup(path, raw)[1].v

CategoryNames == { eventCategoryNames[i] : i \in 1..Len(eventCategoryNames) }

\* The categories of the entry at locale l, when they are a list.
CategoriesAt(l) ==
    IF TypeAt(<<"fields", "eventCategories", l>>) = "array"
    THEN ValueAt(<<"fields", "eventCategories", l>>)
    ELSE <<>>

InvalidCategoryAt(l, i) ==
    /\ i \in 1..Len(CategoriesAt(l))
    /\ CategoriesAt(l)[i].t = "string"
    /\ CategoriesAt(l)[i].v \notin CategoryNames

\* C7: a category outside the enumeration, at any position of the list,
\* fails the decode; no Event with fewer categories is produced.
C7_InvalidCategoryFails ==
    (Decoded /\ \E i \in 1..MaxCategories + 1 : InvalidCategoryAt(locale, i))
        => ~decoded.ok /\ decoded.value = <<>>

\* C7 case: the invalid name comes after valid ones and nothing else is
\* wrong with the entry.
C7_Witness ==
    /\ Decoded
    /\ \E i \in 2..MaxCategories :
          /\ InvalidCategoryAt(locale, i)
          /\ \A k \in 1..(i - 1) : ~InvalidCategoryAt(locale, k)
          /\ decoded.path = <<"fields", "eventCategories", locale, ToString(i)>>
    /\ decoded.error = "NoneMatched"

StringFields ==
    {"name", "startTime", "endTime", "locationName", "eventDescription"}

\* Everything decodeEvent(l) requires is there, with its type.
RequiredWellFormed(l) ==
    /\ TypeAt(<<"sys", "contentType", "sys", "id">>) = "string"
    /\ ValueAt(<<"sys", "contentType", "sys", "id">>) = "event"
    /\ TypeAt(<<"sys", "id">>) = "string"
    /\ TypeAt(<<"sys", "revision">>) = "number"
    /\ \A f \in StringFields : TypeAt(<<"fields", f, l>>) = "string"
    /\ TypeAt(<<"fields", "eventCategories", l>>) = "array"
    /\ TypeAt(<<"fields", "location", l, "lat">>) = "number"
    /\ TypeAt(<<"fields", "location", l, "lon">>) = "number"
    /\ TypeAt(<<"fields", "eventPriceLow", l>>) = "number"
    /\ TypeAt(<<"fields", "eventPriceHigh", l>>) = "number"
    /\ TypeAt(<<"fields", "individualEventPicture", l, "sys", "id">>) = "string"
    /\ TypeAt(<<"fields", "eventsListPicture", l, "sys", "id">>) = "string"

EventKeys == {"contentType", "id", "locale", "revision", "fields"}
FieldKeys == { FieldOrder[i] : i \in 1..Len(FieldOrder) }

\* C8: a wrong content type, or a required value that is missing at the
\* locale or of the wrong type, fails the whole decode; the result is a
\* failure without a value or an Event with every key filled.
C8_AllOrNothing ==
    Decoded =>
        /\ ~RequiredWellFormed(locale) => ~decoded.ok
        /\ ~decoded.ok => decoded.value = <<>>
        /\ decoded.ok =>
              /\ DOMAIN decoded.value = EventKeys
              /\ DOMAIN decoded.value.fields = FieldKeys

\* C8 case: the entry lacks endTime for its own locale and is refused with
\* the path of the missing value.
C8_Witness ==
    /\ Decoded
    /\ locale = ContentLocale
    /\ Present(<<"fields", "endTime">>)
    /\ ~Present(<<"fields", "endTime", locale>>)
    /\ ~decoded.ok
    /\ decoded.error = "MissingField"
    /\ decoded.path = <<"fields", "endTime", locale>>

\* An optional field is omitted: the entry has no such field, or the field
\* has no value for the locale.
Omitted(f, l) == ~Present(<<"fields", f, l>>)

OptionalWellTyped(f, l) ==
    TypeAt(<<"fields", f, l>>) = IF f \in ListFields THEN "array" ELSE "string"

\* C9 as stated: an otherwise well-formed entry with optional fields omitted
\* decodes; an omitted list field is the empty list, an omitted scalar field
\* is absent.
C9_OmittedOptionalDecodes ==
    ( /\ Decoded
      /\ RequiredWellFormed(locale)
      /\ \A i \in 1..Len(CategoriesAt(locale)) : ~InvalidCategoryAt(locale, i)
      /\ \A f \in OptionalFields : Omitted(f, locale) \/ OptionalWellTyped(f, locale) )
    =>
    ( /\ decoded.ok
      /\ \A f \in ListFields :
            Omitted(f, locale) => decoded.value.fields[f] = <<>>
      /\ \A f \in ScalarFields :
            Omitted(f, locale) => decoded.value.fields[f] = Nothing )

---------------------------------------------------------------------------
(* filters/event-filters: selection of the date and time filters and the   *)
(* predicate built from them.  buildDateRangeFilter and buildTimeFilter    *)
(* are the mocked collaborators of the test suite: what they answer for an *)
(* event is part of the event, and their calls are recorded.               *)

\* Every time of day there is (ImageHeader.js:309-323).
Times == {"morning", "afternoon", "evening"}

\* A date filter is null or a range <<startDate, endDate>>.
NullDate == <<>>
DateRanges == { <<"2018-01-01", "2018-01-01">>, <<"2018-08-02", "2018-08-03">> }

Filters == [date : DateRanges \cup {NullDate}, time : SUBSET Times]

\* buildState(selectedFilters, stagedFilters)
buildState(selectedFilters, stagedFilters) ==
    [selectedFilters |-> selectedFilters, stagedFilters |-> stagedFilters]

\* An event, as far as the filters see it: the answer of the predicate
\* buildTimeFilter(t) for every t and of buildDateRangeFilter(d) for every d.
FilterEvents == [time : [Times -> BOOLEAN], date : [DateRanges -> BOOLEAN]]

buildTimeFilter(t, ev) == ev.time[t]
buildDateRangeFilter(d, ev) == ev.date[d]

\* Variant: the selected date whatever the flag says.
selectDateFilter_selectedOnly(state, staged) == state.selectedFilters.date

selectDateFilter(state, staged) ==
    IF staged THEN state.stagedFilters.date ELSE state.selectedFilters.date

selectTimeFilter(state, staged) ==
    IF staged THEN state.stagedFilters.time ELSE state.selectedFilters.time

\* Variant: only the empty set of times switches the time filter off.
UnfilteredTime_emptyOnly(time) == time = {}

\* The time sets that mean "no filtering by time": none or all of them.
UnfilteredTime(time) == time = {} \/ time = Times

\* Variant: the predicate accepts when either filter accepts.
buildEventFilter_either(state, staged, ev) ==
    LET date == selectDateFilter(state, staged)
        time == selectTimeFilter(state, staged)
        dateAccepts == IF date = NullDate THEN TRUE
                       ELSE buildDateRangeFilter(date, ev)
        timeAccepts == IF UnfilteredTime(time) THEN TRUE
                       ELSE \E t \in time : buildTimeFilter(t, ev)
    IN  [accepts |-> dateAccepts \/ timeAccepts,
         buildDateRangeFilterCalls |-> IF date = NullDate THEN {} ELSE {date},
         buildTimeFilterCalls |-> IF UnfilteredTime(time) THEN {} ELSE time]

\* Variant: every chosen time has to match.
buildEventFilter_everyTime(state, staged, ev) ==
    LET date == selectDateFilter(state, staged)
        time == selectTimeFilter(state, staged)
        dateAccepts == IF date = NullDate THEN TRUE
                       ELSE buildDateRangeFilter(date, ev)
        timeAccepts == IF UnfilteredTime(time) THEN TRUE
                       ELSE \A t \in time : buildTimeFilter(t, ev)
    IN  [accepts |-> dateAccepts /\ timeAccepts,
         buildDateRangeFilterCalls |-> IF date = NullDate THEN {} ELSE {date},
         buildTimeFilterCalls |-> IF UnfilteredTime(time) THEN {} ELSE time]

\* buildEventFilter(state, staged): the predicate's answer for ev, with the
\* calls of the two filter builders that building it made.
buildEventFilter(state, staged, ev) ==
    LET date == selectDateFilter(state, staged)
        time == selectTimeFilter(state, staged)
        dateAccepts == IF date = NullDate THEN TRUE
                       ELSE buildDateRangeFilter(date, ev)
        timeAccepts == IF UnfilteredTime(time) THEN TRUE
                       ELSE \E t \in time : buildTimeFilter(t, ev)
    IN  [accepts |-> dateAccepts /\ timeAccepts,
         buildDateRangeFilterCalls |-> IF date = NullDate THEN {} ELSE {date},
         buildTimeFilterCalls |-> IF UnfilteredTime(time) THEN {} ELSE time]

---------------------------------------------------------------------------
(* Specification of the filter selection                                   *)

FilterInit ==
    /\ phase = "filters"
    /\ \E selected \in Filters, staged \in Filters :
          eventFilters = buildState(selected, staged)
    /\ filterRun = "none"
    /\ ExpandIdle /\ DecodeIdle /\ ModalIdle

\* filter = buildEventFilter(state, staged); filter(ev)
BuildEventFilter(staged, ev) ==
    /\ phase = "filters"
    /\ filterRun' = [staged |-> staged, event |-> ev,
                     result |-> buildEventFilter(eventFilters, staged, ev)]
    /\ phase' = "filtered"
    /\ UNCHANGED <<eventFilters, expandVars, decodeVars, modalVars>>

FilterNext == \E staged \in BOOLEAN, ev \in FilterEvents : BuildEventFilter(staged, ev)

FilterSpec == FilterInit /\ [][FilterNext]_vars

---------------------------------------------------------------------------
(* Properties of the filter selection                                      *)

Filtered == phase = "filtered"

\* The filters the last buildEventFilter was asked to use.
ChosenFilters ==
    IF filterRun.staged THEN eventFilters.stagedFilters
    ELSE eventFilters.selectedFilters

\* C10: with no time chosen, or every time chosen, building the predicate
\* never calls buildTimeFilter and the time filter rejects nothing: with a
\* null date the predicate accepts the event whatever the basic filters
\* would answer for it.
C10_UnfilteredTime ==
    (Filtered /\ (ChosenFilters.time = {} \/ ChosenFilters.time = Times)) =>
        /\ filterRun.result.buildTimeFilterCalls = {}
        /\ ChosenFilters.date = NullDate => filterRun.result.accepts
        /\ ChosenFilters.date # NullDate =>
              (filterRun.result.accepts <=> filterRun.event.date[ChosenFilters.date])

\* C10 case: every time is chosen, the date is null, and the event is one
\* that no time filter and no date filter would accept.
C10_Witness ==
    /\ Filtered
    /\ ChosenFilters.time = Times
    /\ ChosenFilters.date = NullDate
    /\ \A t \in Times : ~filterRun.event.time[t]
    /\ \A d \in DateRanges : ~filterRun.event.date[d]
    /\ filterRun.result.accepts

\* What the two components of the predicate have to answer for the event of
\* the last run, told from the chosen filters and the basic filters' answers.
DateComponent ==
    ChosenFilters.date = NullDate \/ filterRun.event.date[ChosenFilters.date]

TimeComponent ==
    \/ ChosenFilters.time = {}
    \/ ChosenFilters.time = Times
    \/ \E t \in ChosenFilters.time : filterRun.event.time[t]

\* C11: the predicate accepts exactly when the date component and the time
\* component both accept; the date component is always true for a null date
\* and is buildDateRangeFilter(date), called with the chosen date, otherwise.
C11_DateAndTime ==
    Filtered =>
        /\ filterRun.result.accepts <=> (DateComponent /\ TimeComponent)
        /\ ChosenFilters.date = NullDate =>
              filterRun.result.buildDateRangeFilterCalls = {}
        /\ ChosenFilters.date # NullDate =>
              filterRun.result.buildDateRangeFilterCalls = {ChosenFilters.date}

\* C11 case: the date filter accepts, the only chosen time rejects, and the
\* predicate rejects.
C11_Witness ==
    /\ Filtered
    /\ ChosenFilters.date # NullDate
    /\ filterRun.event.date[ChosenFilters.date]
    /\ ChosenFilters.time = {"morning"}
    /\ ~filterRun.event.time["morning"]
    /\ ~filterRun.result.accepts

ProperTimeChoice == ChosenFilters.time # {} /\ ChosenFilters.time # Times

\* C12: with some but not all times chosen, buildTimeFilter is called for
\* each chosen time and the time component accepts exactly when one of
\* them accepts.
C12_AnyChosenTime ==
    (Filtered /\ ProperTimeChoice) =>
        /\ filterRun.result.buildTimeFilterCalls = ChosenFilters.time
        /\ DateComponent =>
              (filterRun.result.accepts <=>
                 \E t \in ChosenFilters.time : filterRun.event.time[t])
        /\ (\A t \in ChosenFilters.time : ~filterRun.event.time[t]) =>
              ~filterRun.result.accepts

\* C12 case: of two chosen times one rejects and the other accepts.
C12_Witness ==
    /\ Filtered
    /\ ChosenFilters.date = NullDate
    /\ ChosenFilters.time = {"morning", "evening"}
    /\ ~filterRun.event.time["morning"]
    /\ filterRun.event.time["evening"]
    /\ filterRun.result.accepts

---------------------------------------------------------------------------
(* The filter state behind the FilterModal. data/tags and the container    *)
(* that hands onChange, onApply and onCancel to the screen are not part of *)
(* the source tree: they are modelled from spec.md (the filter-UI          *)
(* contract).                                                              *)

Audience == {"families", "youth"}

\* data/tags: the sections of the modal and the values each one offers.
tags == [audience |-> Audience]

\* The sets of times the filter UI is made to choose in this part.
StagedTimes == {{}, {"morning"}, {"morning", "evening"}}

\* The filters of one branch once the tag sections are part of them.
ModalFilters ==
    [date : DateRanges \cup {NullDate}, time : StagedTimes, audience : SUBSET Audience]

\* onChange(delta): the keys of the delta are replaced in the staged branch.
onChange(state, delta) ==
    [state EXCEPT !.stagedFilters = MergeRight(@, delta)]

\* onApply(): the staged branch is copied to the selected branch.
onApply(state) ==
    [state EXCEPT !.selectedFilters = state.stagedFilters]

\* onCancel(): the staged branch is reverted to the selected branch.
onCancel(state) ==
    [state EXCEPT !.stagedFilters = state.selectedFilters]

\* The deltas the rest of the filter UI emits: a date, or a set of times.
Deltas ==
    {[date |-> d] : d \in DateRanges \cup {NullDate}}
        \cup {[time |-> t] : t \in StagedTimes}

\* The value of the parameter "staged" when the caller leaves it out.
DefaultStaged == FALSE

---------------------------------------------------------------------------
(* FilterModal (src/src/screens/FilterModal/component.js)                  *)

\* Variant: a toggle that only ever adds the value.
toggleTagFilter_addOnly(selectedValues, sectionValue) ==
    LET values == selectedValues
    IN  [values |-> values \cup {sectionValue},
         selectedValues |-> selectedValues]

\* toggleTagFilter(selectedValues, sectionValue): the set it returns
\* (values) and the content of the set passed in once it has returned.
\* values is a copy, new Set([...selectedValues]); delete answers whether
\* the value was there, and add runs only when it was not.
toggleTagFilter(selectedValues, sectionValue) ==
    LET values == selectedValues
    IN  [values |-> IF sectionValue \in values
                    THEN values \ {sectionValue}
                    ELSE values \cup {sectionValue},
         selectedValues |-> selectedValues]

\* clearTagFilters: the delta handed to onChange, every section of tags
\* with an empty set.
clearTagFilters == [sectionName \in DOMAIN tags |-> {}]

\* What a press handler works on: the filter state, whether the screen's
\* "willBlur" listener is registered, and the calls made so far.
Call(state, listening) ==
    [eventFilters |-> state, listening |-> listening, calls |-> <<>>]

callOnApply(c) ==
    [c EXCEPT !.eventFilters = onApply(@), !.calls = Append(@, "onApply")]

callOnCancel(c) ==
    [c EXCEPT !.eventFilters = onCancel(@), !.calls = Append(@, "onCancel")]

\* navigation.goBack(): the screen is left, and the listener registered
\* for "willBlur" at mount, onCancel, is called.
goBack(c) ==
    LET left == [c EXCEPT !.calls = Append(@, "goBack")]
    IN  IF c.listening THEN callOnCancel(left) ELSE left

\* Variant: the Apply button navigates back before it applies.
onApplyPress_goBackFirst(c) == callOnApply(goBack(c))

\* The Apply button's onPress: onApply(); navigation.goBack();
onApplyPress(c) == goBack(callOnApply(c))

\* The header's onCancelPress: navigation.goBack()
onCancelPress(c) == goBack(c)

\* The record of one call of toggleTagFilter by a checkbox.
Toggle(sectionName, sectionValue, selectedValues) ==
    [sectionName |-> sectionName, sectionValue |-> sectionValue,
     selectedValues |-> selectedValues,
     call |-> toggleTagFilter(selectedValues, sectionValue)]

\* The last two of a run of toggles.
LastTwo(toggles) ==
    IF Len(toggles) <= 2 THEN toggles ELSE SubSeq(toggles, Len(toggles) - 1, Len(toggles))

TagSets(filters) == [sectionName \in DOMAIN tags |-> filters[sectionName]]

\* The trace of a screen that has just been mounted over state.
StartTrace(state) ==
    [atOpen |-> state.selectedFilters,
     atPress |-> state.stagedFilters,
     closedBy |-> "none",
     calls |-> <<>>,
     toggles |-> <<>>,
     base |-> TagSets(state.stagedFilters),
     toggled |-> clearTagFilters]

---------------------------------------------------------------------------
(* Specification of the FilterModal                                        *)

ModalInit ==
    /\ phase = "modal"
    /\ \E f \in ModalFilters :
          /\ eventFilters = buildState(f, f)
          /\ trace = StartTrace(buildState(f, f))
    /\ filterRun = "none"
    /\ modal = [screen |-> "closed", didBlurSubscription |-> FALSE,
                handleClear |-> FALSE]
    /\ ExpandIdle /\ DecodeIdle

\* componentDidMount: onCancel is registered for "willBlur" and the
\* header is given handleClear.
Mount ==
    /\ modal.screen = "closed"
    /\ modal' = [screen |-> "open", didBlurSubscription |-> TRUE,
                 handleClear |-> TRUE]
    /\ trace' = StartTrace(eventFilters)
    /\ UNCHANGED <<phase, eventFilters, filterRun, expandVars, decodeVars>>

\* A checkbox's onChange: the section is replaced by the toggled set. The
\* checkbox exists only for a section the filters have.
CheckBoxChange(sectionName, sectionValue) ==
    /\ modal.screen = "open"
    /\ sectionName \in DOMAIN eventFilters.stagedFilters
    /\ LET t == Toggle(sectionName, sectionValue,
                       eventFilters.stagedFilters[sectionName])
       IN  /\ eventFilters' =
                 onChange(eventFilters, [k \in {sectionName} |-> t.call.values])
           /\ trace' =
                 [trace EXCEPT
                    !.toggles = LastTwo(Append(@, t)),
                    !.toggled[sectionName] =
                        IF sectionValue \in @ THEN @ \ {sectionValue}
                        ELSE @ \cup {sectionValue}]
    /\ UNCHANGED <<phase, modal, filterRun, expandVars, decodeVars>>

\* The header's onClearPress: handleClear, that is clearTagFilters.
ClearPress ==
    /\ modal.screen = "open"
    /\ modal.handleClear
    /\ eventFilters' = onChange(eventFilters, clearTagFilters)
    /\ trace' = [trace EXCEPT !.toggles = <<>>,
                              !.base = clearTagFilters,
                              !.toggled = clearTagFilters]
    /\ UNCHANGED <<phase, modal, filterRun, expandVars, decodeVars>>

\* The Apply button is pressed.
ApplyPress ==
    /\ modal.screen = "open"
    /\ LET c == onApplyPress(Call(eventFilters, modal.didBlurSubscription))
       IN  /\ eventFilters' = c.eventFilters
           /\ trace' = [trace EXCEPT !.atPress = eventFilters.stagedFilters,
                                     !.closedBy = "apply",
                                     !.calls = c.calls,
                                     !.toggles = <<>>,
                                     !.base = clearTagFilters,
                                     !.toggled = clearTagFilters]
    /\ modal' = [modal EXCEPT !.screen = "leaving"]
    /\ UNCHANGED <<phase, filterRun, expandVars, decodeVars>>

\* The header's Cancel is pressed.
CancelPress ==
    /\ modal.screen = "open"
    /\ LET c == onCancelPress(Call(eventFilters, modal.didBlurSubscription))
       IN  /\ eventFilters' = c.eventFilters
           /\ trace' = [trace EXCEPT !.atPress = eventFilters.stagedFilters,
                                     !.closedBy = "cancel",
                                     !.calls = c.calls,
                                     !.toggles = <<>>,
                                     !.base = clearTagFilters,
                                     !.toggled = clearTagFilters]
    /\ modal' = [modal EXCEPT !.screen = "leaving"]
    /\ UNCHANGED <<phase, filterRun, expandVars, decodeVars>>

\* componentWillUnmount: the subscription is removed.
Unmount ==
    /\ modal.screen = "leaving"
    /\ modal' = [screen |-> "closed", didBlurSubscription |-> FALSE,
                 handleClear |-> FALSE]
    /\ UNCHANGED <<phase, eventFilters, filterRun, trace, expandVars, decodeVars>>

\* The rest of the filter UI, while the modal is closed, stages a date or
\* a set of times.
StageFilters(delta) ==
    /\ modal.screen = "closed"
    /\ eventFilters' = onChange(eventFilters, delta)
    /\ eventFilters' # eventFilters
    /\ UNCHANGED <<phase, modal, trace, filterRun, expandVars, decodeVars>>

ModalNext ==
    \/ Mount
    \/ \E sectionName \in DOMAIN tags :
          \E sectionValue \in tags[sectionName] :
             CheckBoxChange(sectionName, sectionValue)
    \/ ClearPress
    \/ ApplyPress
    \/ CancelPress
    \/ Unmount
    \/ \E delta \in Deltas : StageFilters(delta)

ModalSpec == ModalInit /\ [][ModalNext]_vars

---------------------------------------------------------------------------
(* Properties of the selectors and of the FilterModal                      *)

\* What a branch shows: its date, its times, and the predicate built from
\* it, as its answers for every event.
View(state, staged) ==
    [date |-> selectDateFilter(state, staged),
     time |-> selectTimeFilter(state, staged),
     filter |-> [ev \in FilterEvents |-> buildEventFilter(state, staged, ev)]]

\* C13: selectDateFilter and selectTimeFilter return the staged branch's
\* date and times when staged is true and the selected branch's when it is
\* false or left out; a step that leaves the selected branch alone leaves
\* what the selectors and buildEventFilter return for it alone, whatever
\* happens to the staged branch, and the other way round.
C13_BranchesIndependent ==
    [][ /\ selectDateFilter(eventFilters', TRUE) = eventFilters'.stagedFilters.date
        /\ selectTimeFilter(eventFilters', TRUE) = eventFilters'.stagedFilters.time
        /\ \A staged \in {FALSE, DefaultStaged} :
              /\ selectDateFilter(eventFilters', staged)
                    = eventFilters'.selectedFilters.date
              /\ selectTimeFilter(eventFilters', staged)
                    = eventFilters'.selectedFilters.time
        /\ eventFilters'.selectedFilters = eventFilters.selectedFilters
              => View(eventFilters', FALSE) = View(eventFilters, FALSE)
        /\ eventFilters'.stagedFilters = eventFilters.stagedFilters
              => View(eventFilters', TRUE) = View(eventFilters, TRUE)
      ]_vars

\* C13 case: the modal is open over branches whose dates and whose times
\* both differ, and a tag has been toggled in the staged branch.
C13_Witness ==
    /\ modal.screen = "open"
    /\ eventFilters.stagedFilters.date # eventFilters.selectedFilters.date
    /\ eventFilters.stagedFilters.time # eventFilters.selectedFilters.time
    /\ eventFilters.selectedFilters.date # NullDate
    /\ eventFilters.stagedFilters.date # NullDate
    /\ trace.toggles # <<>>

\* C14: Apply calls onApply, then goBack, and the listener then calls
\* onCancel; once the modal is left by Apply the selected filters are the
\* staged filters of the moment Apply was pressed, once it is left without
\* Apply the selected filters are those it was opened over, and either
\* way the staged edits that were not applied are gone.
C14_ApplyThenLeave ==
    /\ (modal.screen # "open" /\ trace.closedBy = "apply") =>
          /\ trace.calls = <<"onApply", "goBack", "onCancel">>
          /\ eventFilters.selectedFilters = trace.atPress
    /\ (modal.screen # "open" /\ trace.closedBy = "cancel") =>
          /\ trace.calls = <<"goBack", "onCancel">>
          /\ eventFilters.selectedFilters = trace.atOpen
    /\ modal.screen = "leaving" =>
          eventFilters.stagedFilters = eventFilters.selectedFilters

\* C14 case: tags were toggled, Apply was pressed over staged filters that
\* differ from the selected ones, and the modal has closed.
C14_Witness ==
    /\ modal.screen = "closed"
    /\ trace.closedBy = "apply"
    /\ trace.atPress.audience # trace.atOpen.audience
    /\ eventFilters.selectedFilters = trace.atPress

\* The original statement of C17: in the open modal a value is selected
\* exactly when it was toggled an odd number of times.
C17_SelectedIffOddToggles ==
    modal.screen = "open" =>
        \A sectionName \in DOMAIN tags : \A v \in tags[sectionName] :
            v \in eventFilters.stagedFilters[sectionName]
                <=> v \in trace.toggled[sectionName]

\* C17: toggleTagFilter(S, v) returns S without v when v is in S and S
\* with v otherwise, and leaves S as it was; the same value toggled twice
\* in a row gives back the original S; and after any sequence of toggles a
\* value's selection differs from what it was in the set the sequence
\* started from exactly when it was toggled an odd number of times.
C17_ToggleTagFilter ==
    modal.screen = "open" =>
        /\ \A i \in DOMAIN trace.toggles :
              LET g == trace.toggles[i]
              IN  /\ g.call.values =
                        IF g.sectionValue \in g.selectedValues
                        THEN g.selectedValues \ {g.sectionValue}
                        ELSE g.selectedValues \cup {g.sectionValue}
                  /\ g.call.selectedValues = g.selectedValues
        /\ ( /\ Len(trace.toggles) = 2
             /\ trace.toggles[1].sectionName = trace.toggles[2].sectionName
             /\ trace.toggles[1].sectionValue = trace.toggles[2].sectionValue )
              => trace.toggles[2].call.values = trace.toggles[1].selectedValues
        /\ \A sectionName \in DOMAIN tags : \A v \in tags[sectionName] :
              (v \in eventFilters.stagedFilters[sectionName])
                  <=> ( (v \in trace.base[sectionName])
                           # (v \in trace.toggled[sectionName]) )

\* C17 case: over a set that already held a value, the value was toggled
\* twice in a row, off and on again.
C17_Witness ==
    /\ modal.screen = "open"
    /\ Len(trace.toggles) = 2
    /\ trace.toggles[1].sectionValue = trace.toggles[2].sectionValue
    /\ trace.toggles[1].sectionValue \in trace.toggles[1].selectedValues
    /\ trace.toggles[2].call.values = trace.base[trace.toggles[1].sectionName]

=============================================================================
